---- MODULE Spec2Model ----
(***************************************************************************)
(* A model of kleinanzeigen.py: the title filter, the price normalizer,    *)
(* the search-term parser, the match loop of find_matching_listings, the   *)
(* seen-state file and the notify run of main/run_once.                    *)
(*                                                                         *)
(* A Python str is a sequence of one-character strings; the characters     *)
(* outside ASCII are written "uuml" (u umlaut), "Uuml", "euro" and "nbsp". *)
(* A Python float is a decimal [num, scale] standing for num / 10^scale,   *)
(* kept normalised so that equal values are equal records.                 *)
(* A Listing is [url, price, term]; its title and location are carried     *)
(* through the pipeline unread and are left out.                           *)
(***************************************************************************)
EXTENDS Integers, Sequences, FiniteSets, TLC

VARIABLES
    tf,            \* one call of is_blacklisted_title: arguments and result
    pp,            \* one call of parse_price: argument and result
    argv,          \* positional command-line arguments of the current run
    opts,          \* flags of the current run
    source,        \* the candidate source: term -> listings of its result page
    pc,            \* position of the current run
    configs,       \* search_terms_cfg / configs
    idx,           \* 1-based position of the for-loop over configs
    all_hits,      \* all_hits of find_matching_listings
    hits,          \* the list find_matching_listings returned
    new_hits,      \* the list filter_new_listings returned
    events,        \* side effects of the current run, in order
    file,          \* contents of STATE_PATH
    runs,          \* number of runs of main started so far
    hist           \* history: what earlier runs did (read by the properties only)

vars == <<tf, pp, argv, opts, source, pc, configs, idx, all_hits, hits,
          new_hits, events, file, runs, hist>>

fnVars == <<tf, pp>>
runVars == <<argv, opts, source, pc, configs, idx, all_hits, hits, new_hits,
             events, file, runs, hist>>

\* Python's None and a raised ValueError, as records so that they compare
\* unequal to every float and every Returned(...) value
None == [none |-> TRUE]
ValueError == [raised |-> "ValueError"]
Returned(v) == [value |-> v]

-----------------------------------------------------------------------------
(* str operations *)

UpperChars == <<"A", "B", "C", "D", "E", "F", "G", "H", "I", "J", "K", "L", "M",
                "N", "O", "P", "Q", "R", "S", "T", "U", "V", "W", "X", "Y", "Z",
                "Uuml">>
LowerChars == <<"a", "b", "c", "d", "e", "f", "g", "h", "i", "j", "k", "l", "m",
                "n", "o", "p", "q", "r", "s", "t", "u", "v", "w", "x", "y", "z",
                "uuml">>

LowerChar(c) ==
    IF \E k \in 1..Len(UpperChars) : UpperChars[k] = c
    THEN LowerChars[CHOOSE k \in 1..Len(UpperChars) : UpperChars[k] = c]
    ELSE c

\* str.lower()
Lower(s) == [k \in 1..Len(s) |-> LowerChar(s[k])]

\* sub in s
Contains(sub, s) ==
    \E k \in 0..(Len(s) - Len(sub)) : SubSeq(s, k + 1, k + Len(sub)) = sub

\* characters str.strip() removes
Whitespace == {" ", "nbsp", "tab"}

RECURSIVE LStrip(_)
LStrip(s) ==
    IF s # <<>> /\ s[1] \in Whitespace THEN LStrip(Tail(s)) ELSE s

RECURSIVE RStrip(_)
RStrip(s) ==
    IF s # <<>> /\ s[Len(s)] \in Whitespace
    THEN RStrip(SubSeq(s, 1, Len(s) - 1))
    ELSE s

\* str.strip()
Strip(s) == RStrip(LStrip(s))

\* s.replace(c, by) for a one-character c; by is a str
RECURSIVE Replace(_, _, _)
Replace(s, c, by) ==
    IF s = <<>> THEN <<>>
    ELSE (IF s[1] = c THEN by ELSE <<s[1]>>) \o Replace(Tail(s), c, by)

\* position of the first c in s, 0 when there is none
FirstIndex(s, c) ==
    IF \E k \in 1..Len(s) : s[k] = c
    THEN CHOOSE k \in 1..Len(s) : s[k] = c /\ \A j \in 1..(k - 1) : s[j] # c
    ELSE 0

\* s.split(c)
RECURSIVE Split(_, _)
Split(s, c) ==
    LET k == FirstIndex(s, c)
    IN  IF k = 0 THEN <<s>>
        ELSE <<SubSeq(s, 1, k - 1)>> \o Split(SubSeq(s, k + 1, Len(s)), c)

-----------------------------------------------------------------------------
(* float *)

Digits == {"0", "1", "2", "3", "4", "5", "6", "7", "8", "9"}

DigitVal(c) ==
    CASE c = "0" -> 0 [] c = "1" -> 1 [] c = "2" -> 2 [] c = "3" -> 3
      [] c = "4" -> 4 [] c = "5" -> 5 [] c = "6" -> 6 [] c = "7" -> 7
      [] c = "8" -> 8 [] c = "9" -> 9

RECURSIVE DigitsToNat(_)
DigitsToNat(ds) ==
    IF ds = <<>> THEN 0
    ELSE DigitsToNat(SubSeq(ds, 1, Len(ds) - 1)) * 10 + DigitVal(ds[Len(ds)])

RECURSIVE Pow10(_)
Pow10(n) == IF n = 0 THEN 1 ELSE 10 * Pow10(n - 1)

\* the value num / 10^scale, trailing zeros of the fraction dropped
RECURSIVE Dec(_, _)
Dec(num, scale) ==
    IF scale > 0 /\ num % 10 = 0 THEN Dec(num \div 10, scale - 1)
    ELSE [num |-> num, scale |-> scale]

\* a < b on floats
LtFloat(a, b) == a.num * Pow10(b.scale) < b.num * Pow10(a.scale)

\* float(s) for s over digits, ".", "-" and characters float() rejects
\* (no exponent, "inf", "nan" or "_" forms are drawn)
ParseFloat(s) ==
    LET neg  == s # <<>> /\ s[1] = "-"
        body == IF neg THEN Tail(s) ELSE s
        dot  == FirstIndex(body, ".")
        ip   == IF dot = 0 THEN body ELSE SubSeq(body, 1, dot - 1)
        fp   == IF dot = 0 THEN <<>> ELSE SubSeq(body, dot + 1, Len(body))
        ok   == /\ \A k \in 1..Len(ip) : ip[k] \in Digits
                /\ \A k \in 1..Len(fp) : fp[k] \in Digits
                /\ Len(ip) + Len(fp) > 0
        mag  == DigitsToNat(ip \o fp)
    IN  IF ~ok THEN ValueError
        ELSE Dec(IF neg THEN 0 - mag ELSE mag, Len(fp))

-----------------------------------------------------------------------------
(* Title filter *)

DEFAULT_TITLE_BLACKLIST == <<
    <<"g", "a", "m", "i", "n", "g", " ", "p", "c">>,
    <<"p", "c", " ">>,
    <<" ", "s", "e", "t", "u", "p">>,
    <<"b", "u", "n", "d", "l", "e">>,
    <<"k", "o", "m", "p", "l", "e", "t", "t">>,
    <<"r", "e", "c", "h", "n", "e", "r">>,
    <<"f", "e", "r", "t", "i", "g">>,
    <<"w", "a", "s", "s", "e", "r", "k", "uuml", "h", "l", "u", "n", "g">>,
    <<"w", "a", "s", "s", "e", "r", "k", "u", "e", "h", "l", "u", "n", "g">> >>

W_gaming == <<"g", "a", "m", "i", "n", "g">>
W_pc == <<"p", "c">>
W_setup == <<"s", "e", "t", "u", "p">>

\* extra_blacklist is a list of str; the empty list also stands for None
\* (both are falsy in "if extra_blacklist")
IsBlacklistedTitle(title, search_term, extra_blacklist) ==
    LET t == Lower(title)
        term_lower == Lower(search_term)
    IN  IF /\ Contains(W_gaming, t)
           /\ (Contains(W_pc, t) \/ Contains(W_setup, t))
           /\ ~Contains(W_gaming, term_lower)
           /\ ~Contains(W_pc, term_lower)
           /\ ~Contains(W_setup, term_lower)
        THEN TRUE
        ELSE IF \E k \in 1..Len(DEFAULT_TITLE_BLACKLIST) :
                    /\ ~Contains(DEFAULT_TITLE_BLACKLIST[k], term_lower)
                    /\ Contains(DEFAULT_TITLE_BLACKLIST[k], t)
        THEN TRUE
        ELSE IF /\ extra_blacklist # <<>>
                /\ \E k \in 1..Len(extra_blacklist) :
                      /\ ~Contains(Lower(extra_blacklist[k]), term_lower)
                      /\ Contains(Lower(extra_blacklist[k]), t)
        THEN TRUE
        ELSE FALSE

-----------------------------------------------------------------------------
(* Price normalizer *)

S_zu_verschenken == <<"z", "u", " ", "v", "e", "r", "s", "c", "h", "e", "n", "k", "e", "n">>
S_tausch == <<"t", "a", "u", "s", "c", "h">>

\* re.search(r"(\d+(?:[\.,]\d{1,2})?)", s): the matched text m.group(1), which is
\* never empty; the empty str stands for "no match"
PriceMatch(s) ==
    IF ~\E k \in 1..Len(s) : s[k] \in Digits THEN <<>>
    ELSE
    LET b == CHOOSE k \in 1..Len(s) :
                 s[k] \in Digits /\ \A j \in 1..(k - 1) : s[j] \notin Digits
        e == CHOOSE k \in b..Len(s) :
                 /\ \A j \in b..k : s[j] \in Digits
                 /\ (k = Len(s) \/ s[k + 1] \notin Digits)
        isDigit(k) == k <= Len(s) /\ s[k] \in Digits
        n == IF e + 1 <= Len(s) /\ s[e + 1] \in {".", ","} /\ isDigit(e + 2)
             THEN (IF isDigit(e + 3) THEN 3 ELSE 2)
             ELSE 0
    IN  SubSeq(s, b, e + n)

ParsePrice(text0) ==
    LET text == Strip(text0)
    IN  IF text = <<>> THEN None
        ELSE IF Contains(S_zu_verschenken, Lower(text)) \/ Contains(S_tausch, Lower(text))
        THEN None
        ELSE
        LET m == PriceMatch(Replace(text, "nbsp", <<" ">>))
        IN  IF m = <<>> THEN None
            ELSE
            LET val == Replace(Replace(m, ".", <<>>), ",", <<".">>)
                f == ParseFloat(val)
            IN  IF f = ValueError THEN None ELSE f

-----------------------------------------------------------------------------
(* TermSpec parser *)

SearchTermConfig(t, lo, hi) == [term |-> t, min_price |-> lo, max_price |-> hi]

\* [t.strip() for t in term_raw.split("|") if t.strip()]
TermVariants(term_raw) ==
    LET parts == Split(term_raw, "|")
        stripped == [k \in 1..Len(parts) |-> Strip(parts[k])]
    IN  SelectSeq(stripped, LAMBDA t : t # <<>>)

\* parse_search_term_arg(arg): Returned(the list of configs), or ValueError
ParseSearchTermArg(arg) ==
    LET c == FirstIndex(arg, ":")
        sep == c # 0
        term_part == IF sep THEN SubSeq(arg, 1, c - 1) ELSE arg
        price_part == IF sep THEN SubSeq(arg, c + 1, Len(arg)) ELSE <<>>
        term_raw == Strip(term_part)
        term_variants == TermVariants(term_raw)
        price_str == Strip(price_part)
        d == FirstIndex(price_str, "-")
        low_str == Strip(SubSeq(price_str, 1, d - 1))
        high_str == Strip(SubSeq(price_str, d + 1, Len(price_str)))
        local_min == ParseFloat(Replace(IF d # 0 THEN low_str ELSE price_str, ",", <<".">>))
        local_max == ParseFloat(Replace(high_str, ",", <<".">>))
        with(lo, hi) ==
            [k \in 1..Len(term_variants) |-> SearchTermConfig(term_variants[k], lo, hi)]
    IN  IF term_raw = <<>> THEN ValueError
        ELSE IF term_variants = <<>> THEN ValueError
        ELSE IF ~sep THEN Returned(with(None, None))
        ELSE IF price_str = <<>> THEN ValueError
        ELSE IF d # 0
        THEN IF low_str = <<>> \/ high_str = <<>> THEN ValueError
             ELSE IF local_min = ValueError \/ local_max = ValueError THEN ValueError
             ELSE IF LtFloat(local_max, local_min) THEN ValueError
             ELSE Returned(with(local_min, local_max))
        ELSE IF local_min = ValueError THEN ValueError
             ELSE Returned(with(local_min, None))

-----------------------------------------------------------------------------
(* Match engine and deduplicator *)

Listing(u, p, t) == [url |-> u, price |-> p, term |-> t]

\* what a successful fetch_listings_for_term(term) returns: the listings of the
\* term's result page, each stamped with the term
FetchListingsForTerm(term) ==
    [k \in 1..Len(source[term]) |->
        Listing(source[term][k].url, source[term][k].price, term)]

\* EffectiveMin with the precedence turned round: the global bound first
EffectiveMinGlobalFirst(cfg, min_price) ==
    IF min_price # None THEN min_price ELSE cfg.min_price

EffectiveMin(cfg, min_price) ==
    IF cfg.min_price # None THEN cfg.min_price ELSE min_price

EffectiveMax(cfg, max_price) ==
    IF cfg.max_price # None THEN cfg.max_price ELSE max_price

\* the inner loop over listings: those appended to all_hits
RECURSIVE PriceSurvivors(_, _, _)
PriceSurvivors(listings, effective_min, effective_max) ==
    IF listings = <<>> THEN <<>>
    ELSE IF effective_min # None /\ LtFloat(listings[1].price, effective_min)
    THEN PriceSurvivors(Tail(listings), effective_min, effective_max)
    ELSE IF effective_max # None /\ LtFloat(effective_max, listings[1].price)
    THEN PriceSurvivors(Tail(listings), effective_min, effective_max)
    ELSE <<listings[1]>> \o PriceSurvivors(Tail(listings), effective_min, effective_max)

UrlsOf(listings) == {listings[k].url : k \in 1..Len(listings)}

\* the loop over all_hits with seen_urls: the first listing of every url
RECURSIVE UniqueHits(_)
UniqueHits(listings) ==
    IF listings = <<>> THEN <<>>
    ELSE LET front == SubSeq(listings, 1, Len(listings) - 1)
             last == listings[Len(listings)]
         IN  IF last.url \in UrlsOf(front) THEN UniqueHits(front)
             ELSE UniqueHits(front) \o <<last>>

\* InsertByPrice placing x before the listings of its own price: a sort that is
\* not stable
RECURSIVE InsertBeforeEqual(_, _)
InsertBeforeEqual(sorted, x) ==
    IF sorted = <<>> THEN <<x>>
    ELSE IF ~LtFloat(sorted[1].price, x.price) THEN <<x>> \o sorted
    ELSE <<sorted[1]>> \o InsertBeforeEqual(Tail(sorted), x)

RECURSIVE InsertByPrice(_, _)
InsertByPrice(sorted, x) ==
    IF sorted = <<>> THEN <<x>>
    ELSE IF LtFloat(x.price, sorted[1].price) THEN <<x>> \o sorted
    ELSE <<sorted[1]>> \o InsertByPrice(Tail(sorted), x)

\* sorted(listings, key=lambda x: x.price): Python's sort is stable
RECURSIVE SortedByPrice(_)
SortedByPrice(listings) ==
    IF listings = <<>> THEN <<>>
    ELSE InsertByPrice(SortedByPrice(SubSeq(listings, 1, Len(listings) - 1)),
                       listings[Len(listings)])

-----------------------------------------------------------------------------
(* Seen-state store *)

\* STATE_PATH: missing, or holding bytes that do not decode ("undecodable"),
\* text that is not JSON ("badjson"), JSON that is not a list ("notlist"), or a
\* JSON list of urls ("list", with the list)
MissingFile == [kind |-> "missing", data |-> <<>>]
BrokenFile(k) == [kind |-> k, data |-> <<>>]
ListFile(data) == [kind |-> "list", data |-> data]

\* the order of str on the urls
UrlOrder == <<"u1", "u2", "u3", "u4">>

\* sorted(urls)
SortedUrls(urls) == SelectSeq(UrlOrder, LAMBDA u : u \in urls)

\* what save_seen_urls writes: json.dumps(sorted(urls))
SavedFile(urls) == ListFile(SortedUrls(urls))

\* LoadSeenUrls with the isinstance test turned round
LoadSeenUrlsInverted ==
    IF file.kind = "list" THEN {} ELSE {file.data[k] : k \in 1..Len(file.data)}

\* load_seen_urls(): a missing file, bytes that do not decode, text that is not
\* JSON and JSON that is not a list all give the empty set
LoadSeenUrls ==
    IF file.kind = "list" THEN {file.data[k] : k \in 1..Len(file.data)} ELSE {}

\* MergedSeen without the update: the set as it was loaded
MergedSeenStale(seen, new_listings) == seen

\* seen.update(listing.url for listing in new_listings)
MergedSeen(seen, new_listings) == seen \cup UrlsOf(new_listings)

\* [listing for listing in listings if listing.url not in seen]
NewListings(listings, seen) ==
    SelectSeq(listings, LAMBDA l : l.url \notin seen)

-----------------------------------------------------------------------------
(* main: argument validation *)

\* ParseAll skipping the arguments that do not parse
RECURSIVE ParseAllLenient(_)
ParseAllLenient(args) ==
    IF args = <<>> THEN Returned(<<>>)
    ELSE LET h == ParseSearchTermArg(args[1])
             r == ParseAllLenient(Tail(args))
         IN  IF h = ValueError THEN r ELSE Returned(h.value \o r.value)

\* the loop of main over args.search_terms: Returned(search_terms_cfg), or the
\* ValueError of the first argument that does not parse
RECURSIVE ParseAll(_)
ParseAll(args) ==
    IF args = <<>> THEN Returned(<<>>)
    ELSE LET h == ParseSearchTermArg(args[1])
         IN  IF h = ValueError THEN ValueError
             ELSE LET r == ParseAll(Tail(args))
                  IN  IF r = ValueError THEN ValueError
                      ELSE Returned(h.value \o r.value)

-----------------------------------------------------------------------------
(* Bounds and input pools *)

MaxTerms == 2      \* configs handed to one call of find_matching_listings
MaxRuns == 3       \* runs of main in one behaviour
MaxGroups == 1     \* three-digit groups after the leading group of a price text

T_laptop == <<"l", "a", "p", "t", "o", "p">>
T_gpu == <<"g", "p", "u">>
Terms == {T_laptop, T_gpu}

Eur(n) == Dec(n, 0)

\* advertisements of the marketplace: u2 and u4 cost the same
Ad1 == [url |-> "u1", price |-> Eur(50)]
Ad2 == [url |-> "u2", price |-> Eur(150)]
Ad3 == [url |-> "u3", price |-> Eur(9999)]
Ad4 == [url |-> "u4", price |-> Eur(150)]

\* result pages the candidate source may hold for a term
PagePool == {<<>>, <<Ad4>>, <<Ad2, Ad4>>, <<Ad4, Ad2>>, <<Ad3, Ad1>>, <<Ad1, Ad2, Ad3>>}

\* configs and global bounds handed to find_matching_listings directly
CfgPool == {SearchTermConfig(T_laptop, None, None),
            SearchTermConfig(T_laptop, Eur(100), Eur(300)),
            SearchTermConfig(T_gpu, None, None),
            SearchTermConfig(T_gpu, Eur(100), None)}
GlobalMinPool == {None, Eur(200)}
GlobalMaxPool == {None, Eur(100)}

SeqsUpTo(S, n) == UNION {[1..k -> S] : k \in 0..n}

\* positional arguments: "laptop:100-300", "laptop|gpu", "gpu:20-10", " |:5"
Arg_laptop_100_300 == <<"l", "a", "p", "t", "o", "p", ":", "1", "0", "0", "-", "3", "0", "0">>
Arg_laptop_gpu == <<"l", "a", "p", "t", "o", "p", "|", "g", "p", "u">>
Arg_gpu_20_10 == <<"g", "p", "u", ":", "2", "0", "-", "1", "0">>
Arg_empty_term == <<" ", "|", ":", "5">>
\* argument lists of a run of main: none, well-formed ones, and ones with a
\* malformed argument in first, middle and last position
ArgvPool == {<<>>,
             <<Arg_laptop_100_300>>,
             <<Arg_laptop_gpu>>,
             <<Arg_laptop_100_300, Arg_laptop_gpu>>,
             <<Arg_laptop_gpu, Arg_laptop_100_300>>,
             <<Arg_gpu_20_10>>,
             <<Arg_empty_term, Arg_laptop_gpu>>,
             <<Arg_laptop_gpu, Arg_gpu_20_10>>,
             <<Arg_laptop_100_300, Arg_empty_term, Arg_laptop_gpu>>}

\* result pages of the runs of main
MainPagePool == {<<Ad2>>, <<Ad2, Ad1>>}

Options(n, c, ne, nn, lo, hi) ==
    [notify |-> n, clear_seen |-> c, no_email |-> ne, no_ntfy |-> nn,
     min_price |-> lo, max_price |-> hi]
\* (--no-email, --no-ntfy): both sinks enabled, one, none
SinkFlags == {<<FALSE, FALSE>>, <<TRUE, FALSE>>, <<TRUE, TRUE>>}
OptPool ==
    {Options(n, c, sf[1], sf[2], None, hi) :
        n \in BOOLEAN, c \in BOOLEAN, sf \in SinkFlags, hi \in GlobalMaxPool}

\* contents STATE_PATH may have before the first run
FilePool == {MissingFile, BrokenFile("undecodable"), BrokenFile("badjson"),
             BrokenFile("notlist"), ListFile(<<>>), ListFile(<<"u2">>)}

-----------------------------------------------------------------------------
(* State *)

NoCall == [called |-> FALSE]
IdleOpts == Options(FALSE, FALSE, FALSE, FALSE, None, None)
IdleSource == [t \in Terms |-> <<>>]
IdleHist == [failed |-> {}, save |-> "none", file0 |-> MissingFile,
             rerun |-> FALSE, prev_clean |-> FALSE,
             notified |-> {}, undelivered |-> {}]

FnIdle == tf = NoCall /\ pp = NoCall

Event(op) == [op |-> op]
FetchEvent(term) == [op |-> "fetch", term |-> term]

-----------------------------------------------------------------------------
(* find_matching_listings *)

\* FetchRaises leaving the loop instead of continuing with the next config
FetchRaisesAborts ==
    /\ pc = "fetch" /\ idx <= Len(configs)
    /\ events' = events \o <<FetchEvent(configs[idx].term)>>
    /\ idx' = Len(configs) + 1
    /\ hist' = [hist EXCEPT !.failed = @ \cup {idx}]
    /\ UNCHANGED <<fnVars, argv, opts, source, pc, configs, all_hits, hits,
                   new_hits, file, runs>>

\* the for-loop over configs: fetch_listings_for_term raises
FetchRaises ==
    /\ pc = "fetch" /\ idx <= Len(configs)
    /\ events' = events \o <<FetchEvent(configs[idx].term)>>
    /\ idx' = idx + 1
    /\ hist' = [hist EXCEPT !.failed = @ \cup {idx}]
    /\ UNCHANGED <<fnVars, argv, opts, source, pc, configs, all_hits, hits,
                   new_hits, file, runs>>

\* the for-loop over configs: fetch_listings_for_term returns, the price filter
\* runs and the loop sleeps
FetchReturns ==
    /\ pc = "fetch" /\ idx <= Len(configs)
    /\ LET cfg == configs[idx]
           listings == FetchListingsForTerm(cfg.term)
           effective_min == EffectiveMin(cfg, opts.min_price)
           effective_max == EffectiveMax(cfg, opts.max_price)
       IN  /\ all_hits' = all_hits \o PriceSurvivors(listings, effective_min, effective_max)
           /\ events' = events \o <<FetchEvent(cfg.term), Event("sleep")>>
    /\ idx' = idx + 1
    /\ UNCHANGED <<fnVars, argv, opts, source, pc, configs, hits, new_hits,
                   file, runs, hist>>

\* after the loop: deduplicate by url, sort by price, return
FindMatchingReturns ==
    /\ pc = "fetch" /\ idx > Len(configs)
    /\ hits' = SortedByPrice(UniqueHits(all_hits))
    /\ pc' = "matched"
    /\ UNCHANGED <<fnVars, argv, opts, source, configs, idx, all_hits, new_hits,
                   events, file, runs, hist>>

-----------------------------------------------------------------------------
(* main and run_once *)

\* a run of main starts: the shell passes the arguments
Main ==
    /\ pc = "shell" /\ ~hist.rerun /\ runs < MaxRuns
    /\ \E a \in ArgvPool, o \in OptPool, src \in [Terms -> MainPagePool] :
          /\ argv' = a
          /\ opts' = o
          /\ source' = src
    /\ pc' = "main"
    /\ runs' = runs + 1
    /\ hist' = [hist EXCEPT !.file0 = file]
    /\ UNCHANGED <<fnVars, configs, idx, all_hits, hits, new_hits, events, file>>

\* a run of main starts with the terms, the global bounds and the candidate
\* source of the run before it
MainAgain ==
    /\ pc = "shell" /\ hist.rerun /\ runs < MaxRuns
    /\ \E o \in OptPool :
          /\ o.min_price = opts.min_price
          /\ o.max_price = opts.max_price
          /\ opts' = o
    /\ pc' = "main"
    /\ runs' = runs + 1
    /\ hist' = [hist EXCEPT !.file0 = file]
    /\ UNCHANGED <<fnVars, argv, source, configs, idx, all_hits, hits, new_hits,
                   events, file>>

\* parser.error: no search term, or an argument that does not parse
ParserError ==
    /\ pc = "main"
    /\ (argv = <<>> \/ ParseAll(argv) = ValueError)
    /\ pc' = "exit2"
    /\ UNCHANGED <<fnVars, argv, opts, source, configs, idx, all_hits, hits,
                   new_hits, events, file, runs, hist>>

ParseArgs ==
    /\ pc = "main"
    /\ argv # <<>>
    /\ ParseAll(argv) # ValueError
    /\ configs' = ParseAll(argv).value
    /\ pc' = "clear"
    /\ UNCHANGED <<fnVars, argv, opts, source, idx, all_hits, hits, new_hits,
                   events, file, runs, hist>>

\* --clear-seen, then run_once calls find_matching_listings
ClearSeen ==
    /\ pc = "clear"
    /\ \E unlink_raises \in BOOLEAN :
          IF opts.clear_seen /\ file.kind # "missing"
          THEN /\ file' = IF unlink_raises THEN file ELSE MissingFile
               /\ events' = events \o
                      <<Event(IF unlink_raises THEN "unlink_failed" ELSE "unlink")>>
          ELSE /\ ~unlink_raises
               /\ file' = file
               /\ events' = events
    /\ hist' = IF opts.clear_seen
               THEN [hist EXCEPT !.notified = {}, !.undelivered = {}]
               ELSE hist
    /\ pc' = "fetch"
    /\ idx' = 1
    /\ all_hits' = <<>>
    /\ UNCHANGED <<fnVars, argv, opts, source, configs, hits, new_hits, runs>>

\* run_once without --notify
PrintListings ==
    /\ pc = "matched" /\ ~opts.notify
    /\ events' = events \o <<Event("print")>>
    /\ pc' = "done"
    /\ UNCHANGED <<fnVars, argv, opts, source, configs, idx, all_hits, hits,
                   new_hits, file, runs, hist>>

SaveOutcomes == {"ok", "mkdir_raises", "write_fails"}

\* filter_new_listings, with save_seen_urls. mkdir is outside the try block: what
\* it raises leaves save_seen_urls, filter_new_listings, run_once and main. A
\* failed write_text leaves the file as it was (open failed) or cut short (the
\* write failed after open truncated it).
FilterNewListings ==
    /\ pc = "matched" /\ opts.notify
    /\ LET seen == LoadSeenUrls
           new_listings == NewListings(hits, seen)
       IN  IF new_listings = <<>>
           THEN /\ new_hits' = <<>>
                /\ events' = events \o <<Event("load")>>
                /\ pc' = "done"
                /\ UNCHANGED <<file, hist>>
           ELSE \E outcome \in SaveOutcomes, cut \in BOOLEAN :
                /\ (cut => outcome = "write_fails")
                /\ file' = CASE outcome = "ok" -> SavedFile(MergedSeen(seen, new_listings))
                             [] outcome = "mkdir_raises" -> file
                             [] outcome = "write_fails" ->
                                  IF cut THEN BrokenFile("badjson") ELSE file
                /\ events' = events \o <<Event("load")>> \o
                     CASE outcome = "ok" -> <<Event("mkdir"), Event("write")>>
                       [] outcome = "mkdir_raises" -> <<Event("mkdir_failed")>>
                       [] outcome = "write_fails" -> <<Event("mkdir"), Event("write_failed")>>
                /\ new_hits' = IF outcome = "mkdir_raises" THEN <<>> ELSE new_listings
                /\ pc' = IF outcome = "mkdir_raises" THEN "crashed" ELSE "sinks"
                /\ hist' = [hist EXCEPT !.save = outcome]
    /\ UNCHANGED <<fnVars, argv, opts, source, configs, idx, all_hits, hits, runs>>

EmailOutcomes == {"sent", "failed", "unset"}
NtfyOutcomes(n) ==
    {[set |-> FALSE, sent |-> {}]} \cup {[set |-> TRUE, sent |-> S] : S \in SUBSET (1..n)}

\* run_once hands new_hits to the enabled sinks; a sink that is not configured
\* or fails logs and returns
Notify ==
    /\ pc = "sinks"
    /\ \E email \in EmailOutcomes, ntfy \in NtfyOutcomes(Len(new_hits)) :
          /\ (opts.no_email => email = "unset")
          /\ (opts.no_ntfy => ~ntfy.set)
          /\ events' = events
                \o (IF opts.no_email THEN <<>>
                    ELSE <<[op |-> "email", listings |-> new_hits]>>)
                \o (IF opts.no_ntfy THEN <<>>
                    ELSE <<[op |-> "ntfy", listings |-> new_hits]>>)
          /\ LET delivered(k) ==
                     \/ ~opts.no_email /\ email = "sent"
                     \/ ~opts.no_ntfy /\ ntfy.set /\ k \in ntfy.sent
                 lost == {new_hits[k].url : k \in {j \in 1..Len(new_hits) : ~delivered(j)}}
             IN  hist' = IF hist.save = "ok"
                         THEN [hist EXCEPT !.notified = @ \cup UrlsOf(new_hits),
                                           !.undelivered = @ \cup lost]
                         ELSE [hist EXCEPT !.notified = {}, !.undelivered = {}]
    /\ pc' = "done"
    /\ UNCHANGED <<fnVars, argv, opts, source, configs, idx, all_hits, hits,
                   new_hits, file, runs>>

\* the process ends: only STATE_PATH lives on. After a notify run whose fetches
\* and save all succeeded, the next run may be marked as a repetition of it
\* (hist.rerun); Main can repeat any other run without the mark.
Exit ==
    /\ pc \in {"done", "exit2", "crashed"}
    /\ \E again \in BOOLEAN :
          /\ LET clean == /\ pc = "done" /\ opts.notify
                          /\ hist.failed = {} /\ hist.save \in {"none", "ok"}
             IN  /\ (again => runs < MaxRuns /\ clean)
                 /\ hist' = [hist EXCEPT
                        !.failed = {}, !.save = "none", !.file0 = file,
                        !.rerun = again, !.prev_clean = clean]
          /\ argv' = IF again THEN argv ELSE <<>>
          /\ opts' = IF again THEN opts ELSE IdleOpts
          /\ source' = IF again THEN source ELSE IdleSource
    /\ pc' = "shell"
    /\ configs' = <<>> /\ idx' = 1
    /\ all_hits' = <<>> /\ hits' = <<>> /\ new_hits' = <<>> /\ events' = <<>>
    /\ UNCHANGED <<fnVars, file, runs>>

Init ==
    /\ FnIdle
    /\ argv = <<>> /\ opts = IdleOpts /\ source = IdleSource
    /\ pc = "shell" /\ configs = <<>> /\ idx = 1
    /\ all_hits = <<>> /\ hits = <<>> /\ new_hits = <<>> /\ events = <<>>
    /\ file \in FilePool
    /\ runs = 0
    /\ hist = [IdleHist EXCEPT !.file0 = file]

Next ==
    \/ Main \/ MainAgain \/ ParserError \/ ParseArgs \/ ClearSeen
    \/ FetchRaises \/ FetchReturns \/ FindMatchingReturns
    \/ PrintListings \/ FilterNewListings \/ Notify \/ Exit

Spec == Init /\ [][Next]_vars

-----------------------------------------------------------------------------
(* find_matching_listings called on its own *)

InitMatch ==
    /\ FnIdle
    /\ argv = <<>>
    /\ \E lo \in GlobalMinPool, hi \in GlobalMaxPool :
          opts = Options(FALSE, FALSE, FALSE, FALSE, lo, hi)
    /\ source \in [Terms -> PagePool]
    /\ pc = "fetch"
    /\ configs \in SeqsUpTo(CfgPool, MaxTerms)
    /\ idx = 1
    /\ all_hits = <<>> /\ hits = <<>> /\ new_hits = <<>> /\ events = <<>>
    /\ file = MissingFile /\ runs = 1 /\ hist = IdleHist

NextMatch == FetchRaises \/ FetchReturns \/ FindMatchingReturns

SpecMatch == InitMatch /\ [][NextMatch]_vars

-----------------------------------------------------------------------------
(* is_blacklisted_title called on its own *)

Title_gaming_pc_for_sale == <<"g", "a", "m", "i", "n", "g", " ", "p", "c", " ", "f", "o", "r", " ", "s", "a", "l", "e">>
Title_gaming_pc_bundle == <<"g", "a", "m", "i", "n", "g", " ", "p", "c", " ", "b", "u", "n", "d", "l", "e">>
Title_Gaming_Setup == <<"G", "a", "m", "i", "n", "g", " ", "S", "e", "t", "u", "p">>
Title_rtx_3080 == <<"r", "t", "x", " ", "3", "0", "8", "0">>
Title_PC_Rechner == <<"P", "C", " ", "R", "e", "c", "h", "n", "e", "r">>
Title_rtx_3080_defekt == <<"r", "t", "x", " ", "3", "0", "8", "0", " ", "d", "e", "f", "e", "k", "t">>
Title_mini_pc == <<"m", "i", "n", "i", " ", "p", "c">>
TitlePool == {Title_gaming_pc_for_sale, Title_gaming_pc_bundle, Title_Gaming_Setup,
              Title_rtx_3080, Title_PC_Rechner, Title_rtx_3080_defekt, Title_mini_pc}

Term_gaming_pc == <<"g", "a", "m", "i", "n", "g", " ", "p", "c">>
Term_graphics_card == <<"g", "r", "a", "p", "h", "i", "c", "s", " ", "c", "a", "r", "d">>
Term_rtx_3080 == <<"r", "t", "x", " ", "3", "0", "8", "0">>
Term_Rechner == <<"R", "e", "c", "h", "n", "e", "r">>
Term_pc_gehaeuse == <<"p", "c", " ", "g", "e", "h", "a", "e", "u", "s", "e">>
SearchTermPool == {Term_gaming_pc, Term_graphics_card, Term_rtx_3080, Term_Rechner,
                   Term_pc_gehaeuse}

Extra_defekt == <<"d", "e", "f", "e", "k", "t">>
Extra_RTX == <<"R", "T", "X">>
ExtraBlacklistPool == {<<>>, <<Extra_defekt>>, <<Extra_RTX>>}

RunIdle ==
    /\ argv = <<>> /\ opts = IdleOpts /\ source = IdleSource
    /\ pc = "shell" /\ configs = <<>> /\ idx = 1
    /\ all_hits = <<>> /\ hits = <<>> /\ new_hits = <<>> /\ events = <<>>
    /\ file = MissingFile /\ runs = 0 /\ hist = IdleHist

InitTitle ==
    /\ \E t \in TitlePool, q \in SearchTermPool, x \in ExtraBlacklistPool :
          tf = [called |-> FALSE, title |-> t, search_term |-> q,
                extra_blacklist |-> x, result |-> FALSE]
    /\ pp = NoCall
    /\ RunIdle

CallIsBlacklistedTitle ==
    /\ ~tf.called
    /\ tf' = [tf EXCEPT !.called = TRUE,
                        !.result = IsBlacklistedTitle(tf.title, tf.search_term,
                                                      tf.extra_blacklist)]
    /\ UNCHANGED <<pp, runVars>>

SpecTitle == InitTitle /\ [][CallIsBlacklistedTitle]_vars

-----------------------------------------------------------------------------
(* parse_price called on its own *)

LeadGroups == {<<"1">>, <<"7">>, <<"1", "2">>}
ThousandGroups == {<<"2", "3", "4">>, <<"0", "0", "0">>}
DecimalPool == {<<>>, <<"5">>, <<"4", "5">>, <<"0", "0">>}
SuffixPool == {<<>>, <<" ", "euro">>, <<"nbsp", "euro", " ", "V", "B">>}

RECURSIVE Flatten(_)
Flatten(ss) == IF ss = <<>> THEN <<>> ELSE ss[1] \o Flatten(Tail(ss))

\* a price written the German way: digit groups separated by ".", then
\* optionally "," and one or two decimals; with the number it denotes
GermanPrice(lead, groups, decimals, suffix) ==
    [text |-> lead
              \o Flatten([k \in 1..Len(groups) |-> <<".">> \o groups[k]])
              \o (IF decimals = <<>> THEN <<>> ELSE <<",">> \o decimals)
              \o suffix,
     expected |-> Dec(DigitsToNat(lead \o Flatten(groups) \o decimals), Len(decimals))]

Text_zu_verschenken == <<"z", "u", " ", "v", "e", "r", "s", "c", "h", "e", "n", "k", "e", "n">>
Text_Zu_verschenken_VB == <<"Z", "u", " ", "v", "e", "r", "s", "c", "h", "e", "n", "k", "e", "n", " ", "V", "B">>
Text_blank == <<" ", " ">>

PriceTextPool ==
    {GermanPrice(l, g, d, x) :
        l \in LeadGroups, g \in SeqsUpTo(ThousandGroups, MaxGroups),
        d \in DecimalPool, x \in SuffixPool}
    \cup {[text |-> t, expected |-> None] :
            t \in {<<>>, Text_blank, Text_zu_verschenken, Text_Zu_verschenken_VB}}

InitPrice ==
    /\ tf = NoCall
    /\ \E p \in PriceTextPool :
          pp = [called |-> FALSE, text |-> p.text, expected |-> p.expected,
                result |-> None]
    /\ RunIdle

CallParsePrice ==
    /\ ~pp.called
    /\ pp' = [pp EXCEPT !.called = TRUE, !.result = ParsePrice(pp.text)]
    /\ UNCHANGED <<tf, runVars>>

SpecPrice == InitPrice /\ [][CallParsePrice]_vars

-----------------------------------------------------------------------------
(* Properties *)

IsFetch(e) == e.op = "fetch"
AfterLoad == pc \in {"sinks", "done", "crashed"}

\* C1: a notify run that repeats the run before it (same terms, same global
\* bounds, same candidate source, no --clear-seen), where every fetch of both runs
\* succeeded and the earlier run saved the seen state (or had nothing to save),
\* gets the empty list from filter_new_listings and hands nothing to the sinks.
C1_SecondRunNotifiesNothing ==
    (/\ hist.rerun /\ hist.prev_clean
     /\ opts.notify /\ ~opts.clear_seen
     /\ hist.failed = {}
     /\ AfterLoad)
    => (pc = "done" /\ new_hits = <<>>)

C1_Witness ==
    /\ hist.rerun /\ hist.prev_clean
    /\ opts.notify /\ ~opts.clear_seen /\ hist.failed = {}
    /\ pc = "done" /\ hits # <<>> /\ new_hits = <<>>
    /\ file.kind = "list" /\ UrlsOf(hits) \subseteq LoadSeenUrls

\* C2: when persisting the merged seen set fails (creating the directory or
\* writing the file), no exception leaves save_seen_urls, filter_new_listings
\* still returns the new listings and run_once hands them to the enabled sinks.
C2_SaveFailureNeverAborts ==
    (hist.save \in {"mkdir_raises", "write_fails"})
    => /\ pc # "crashed"
       /\ new_hits # <<>>
       /\ (pc = "done" =>
             /\ (~opts.no_email =>
                   \E k \in 1..Len(events) :
                       events[k].op = "email" /\ events[k].listings = new_hits)
             /\ (~opts.no_ntfy =>
                   \E k \in 1..Len(events) :
                       events[k].op = "ntfy" /\ events[k].listings = new_hits))

\* C3: a listing handed to the sinks in a notify run whose save succeeded is not
\* handed to the sinks again in a later notify run, as long as no run clears
\* the seen state and no save fails, whatever the sinks did with it.
C3_NoSecondNotification ==
    (pc = "sinks") => (UrlsOf(new_hits) \cap hist.notified = {})

C3_Witness ==
    /\ pc = "sinks"
    /\ new_hits # <<>>
    /\ UrlsOf(hits) \cap hist.undelivered # {}
    /\ UrlsOf(new_hits) \cap hist.undelivered = {}

\* position in all_hits of the first listing with url u
FirstPos(u) ==
    CHOOSE k \in 1..Len(all_hits) :
        all_hits[k].url = u /\ \A j \in 1..(k - 1) : all_hits[j].url # u

\* urls of the listings the config at position k contributed to all_hits
ProducedBy(k) ==
    IF k \in hist.failed THEN {}
    ELSE UrlsOf(PriceSurvivors(FetchListingsForTerm(configs[k].term),
                               EffectiveMin(configs[k], opts.min_price),
                               EffectiveMax(configs[k], opts.max_price)))

\* C4: the list find_matching_listings returns holds, for every url of all_hits,
\* exactly the first listing of all_hits with that url, which carries the term of
\* the earliest config that produced the url; prices do not decrease, and
\* listings of equal price are in the order of their first occurrence.
C4_DedupStableSort ==
    (pc = "matched") =>
       /\ UrlsOf(hits) = UrlsOf(all_hits)
       /\ Len(hits) = Cardinality(UrlsOf(all_hits))
       /\ \A k \in 1..Len(hits) :
             /\ hits[k] = all_hits[FirstPos(hits[k].url)]
             /\ \E c \in 1..Len(configs) :
                   /\ hits[k].url \in ProducedBy(c)
                   /\ \A b \in 1..(c - 1) : hits[k].url \notin ProducedBy(b)
                   /\ hits[k].term = configs[c].term
       /\ \A i \in 1..Len(hits) : \A j \in (i + 1)..Len(hits) :
             /\ ~LtFloat(hits[j].price, hits[i].price)
             /\ (hits[i].price = hits[j].price
                   => FirstPos(hits[i].url) < FirstPos(hits[j].url))

C4_Witness ==
    /\ pc = "matched"
    /\ Len(all_hits) > Len(hits)
    /\ Len(hits) >= 3
    /\ \E i \in 1..Len(hits) : \E j \in (i + 1)..Len(hits) :
          /\ hits[i].price = hits[j].price
          /\ hits[i].term # hits[j].term

\* price within the bounds, a bound of None not applying
WithinBounds(price, lo, hi) ==
    /\ (lo = None \/ ~LtFloat(price, lo))
    /\ (hi = None \/ ~LtFloat(hi, price))

\* the listings the first k configs should have contributed: for every config
\* whose fetch returned, the listings of its page priced within the config's own
\* bound where it has one and the global bound otherwise
RECURSIVE C5_Expected(_)
C5_Expected(k) ==
    IF k = 0 THEN <<>>
    ELSE LET cfg == configs[k]
             lo == IF cfg.min_price = None THEN opts.min_price ELSE cfg.min_price
             hi == IF cfg.max_price = None THEN opts.max_price ELSE cfg.max_price
         IN  C5_Expected(k - 1) \o
               (IF k \in hist.failed THEN <<>>
                ELSE SelectSeq(FetchListingsForTerm(cfg.term),
                               LAMBDA l : WithinBounds(l.price, lo, hi)))

\* C5: a fetched listing survives exactly when its price is within the
\* effective bounds of its term, the term's own bound overriding the global
\* one; "laptop:100-300" over prices 50, 150 and 9999 outputs the 150 listing.
C5_PriceRange ==
    /\ (pc \in {"fetch", "matched"} => all_hits = C5_Expected(idx - 1))
    /\ (/\ pc = "matched"
        /\ configs = <<SearchTermConfig(T_laptop, Eur(100), Eur(300))>>
        /\ source[T_laptop] = <<Ad1, Ad2, Ad3>>
        /\ hist.failed = {})
       => hits = <<Listing("u2", Eur(150), T_laptop)>>

C5_Witness ==
    /\ pc = "matched"
    /\ configs = <<SearchTermConfig(T_laptop, Eur(100), Eur(300))>>
    /\ source[T_laptop] = <<Ad1, Ad2, Ad3>>
    /\ hist.failed = {}
    /\ opts.min_price = Eur(200) /\ opts.max_price = Eur(100)
    /\ hits = <<Listing("u2", Eur(150), T_laptop)>>

\* C6: when the argument list is empty or any argument raises a validation
\* error, the run stops in the parser: no fetch, no clear, read or write of the
\* seen state and no sink call has happened, and no config is used.
C6_ValidationBeforeSideEffects ==
    (/\ pc # "shell"
     /\ (argv = <<>> \/ \E k \in 1..Len(argv) : ParseSearchTermArg(argv[k]) = ValueError))
    => /\ pc \in {"main", "exit2"}
       /\ events = <<>>
       /\ file = hist.file0
       /\ configs = <<>>

C6_Witness ==
    /\ pc = "exit2"
    /\ Len(argv) = 3
    /\ ParseSearchTermArg(argv[1]) # ValueError
    /\ ParseSearchTermArg(argv[2]) = ValueError
    /\ opts.notify /\ opts.clear_seen
    /\ file.kind = "list" /\ file.data # <<>>
    /\ events = <<>>

\* the listings of the configs from position k on whose fetch returned
RECURSIVE C7_Survivors(_)
C7_Survivors(k) ==
    IF k > Len(configs) THEN <<>>
    ELSE (IF k \in hist.failed THEN <<>>
          ELSE PriceSurvivors(FetchListingsForTerm(configs[k].term),
                              EffectiveMin(configs[k], opts.min_price),
                              EffectiveMax(configs[k], opts.max_price)))
         \o C7_Survivors(k + 1)

\* C7: whichever fetches raise, every config is fetched once, in argument
\* order, and the result is the deduplicated, sorted survivors of exactly the
\* configs whose fetch returned.
C7_FetchFailureNonFatal ==
    (pc = "matched") =>
       /\ LET fetched == SelectSeq(events, IsFetch)
          IN  /\ Len(fetched) = Len(configs)
              /\ \A k \in 1..Len(configs) : fetched[k].term = configs[k].term
       /\ hits = SortedByPrice(UniqueHits(C7_Survivors(1)))

C7_Witness ==
    /\ pc = "matched"
    /\ Len(configs) = 2
    /\ hist.failed = {1}
    /\ hits # <<>>
    /\ source[configs[1].term] # <<>>

\* C8: with no extra blacklist, "gaming pc for sale" is not excluded for the
\* search term "gaming pc", and "gaming pc bundle" is excluded for the search
\* term "graphics card".
C8_TitleExemption ==
    (tf.called /\ tf.extra_blacklist = <<>>) =>
       /\ (tf.title = Title_gaming_pc_for_sale /\ tf.search_term = Term_gaming_pc
             => tf.result = FALSE)
       /\ (tf.title = Title_gaming_pc_bundle /\ tf.search_term = Term_graphics_card
             => tf.result = TRUE)

\* C9: parse_price returns the value of a price written with "." between
\* digit groups and "," before one or two decimals, and no price for empty
\* text and for "zu verschenken".
C9_PriceNormalization ==
    pp.called => pp.result = pp.expected

\* C10: between any two consecutive fetches of a run of
\* find_matching_listings the loop sleeps, whether the earlier fetch returned
\* or raised.
C10_DelayBetweenFetches ==
    \A i \in 1..Len(events) : \A j \in (i + 1)..Len(events) :
        (events[i].op = "fetch" /\ events[j].op = "fetch")
        => \E m \in (i + 1)..(j - 1) : events[m].op = "sleep"

====
